---- MODULE Spec2Model ----
(***************************************************************************)
(* Balance forecaster (src/bank_balance.py).                               *)
(*                                                                         *)
(* Three parts of the script are modelled, each under its own              *)
(* specification:                                                          *)
(*   SpecExpand   the loop of generate_recurring_events, called on a       *)
(*                stored declaration as the projection tab calls it;       *)
(*   SpecProject  project_balance, called as the projection tab calls it;  *)
(*   SpecStore    the session state, the Add and Delete handlers and the   *)
(*                JSON file, for two sessions sharing the file             *)
(*                (SpecSingle: the same handlers with one session).        *)
(*                                                                         *)
(* Amounts are integers (minor units); a pandas Timestamp is a calendar    *)
(* date in the expansion and a count of ticks in the projection.           *)
(***************************************************************************)
EXTENDS Integers, Sequences, FiniteSets

VARIABLES
    \* ---- generate_recurring_events ----
    item,        \* the stored declaration the projection tab expands
    start_date,  \* argument start_date (a Timestamp)
    end_date,    \* argument end_date
    freq,        \* argument freq
    current,     \* local variable current
    dates,       \* local variable dates
    pc,          \* "idle", "loop", "returned", "raised"
    \* ---- project_balance ----
    p_balance,   \* argument start_balance
    p_events,    \* argument events: rows [date, amount]
    p_start,     \* argument start_date (ticks)
    p_end,       \* argument end_date (ticks)
    daily,       \* local daily: rows [date, amount], one per event date
    timeline,    \* local timeline: rows [date, balance, amount]
    ppc,         \* "call", "grid", "merged", "done"
    \* ---- session state and store ----
    file,        \* cashflow_data.json: NoFile or [bills, income]
    sess,        \* per session: [loaded, bills, income]
    op,          \* the widgets of the last rerun that acted
    added,       \* history: names each session added and has not deleted itself
    seen         \* history: names each session found in the file when it loaded

expVars   == <<item, start_date, end_date, freq, current, dates, pc>>
projVars  == <<p_balance, p_events, p_start, p_end, daily, timeline, ppc>>
storeVars == <<file, sess, op, added, seen>>
vars      == <<expVars, projVars, storeVars>>

----------------------------------------------------------------------------
(* Calendar: what datetime / pandas.Timestamp do with year, month, day.    *)

Date(y, m, d) == [year |-> y, month |-> m, day |-> d]

IsLeap(y) == (y % 4 = 0) /\ ((y % 100 # 0) \/ (y % 400 = 0))

DaysInMonth(y, m) ==
    IF m = 2 THEN (IF IsLeap(y) THEN 29 ELSE 28)
    ELSE IF m \in {4, 6, 9, 11} THEN 30 ELSE 31

ValidDate(y, m, d) == m \in 1..12 /\ d >= 1 /\ d <= DaysInMonth(y, m)

DaysBeforeYear(y) ==
    (y - 1) * 365 + ((y - 1) \div 4) - ((y - 1) \div 100) + ((y - 1) \div 400)

RECURSIVE DaysBeforeMonth(_, _)
DaysBeforeMonth(y, m) ==
    IF m <= 1 THEN 0 ELSE DaysBeforeMonth(y, m - 1) + DaysInMonth(y, m - 1)

\* The proleptic Gregorian ordinal of a date (date.toordinal).
ToOrdinal(d) == DaysBeforeYear(d.year) + DaysBeforeMonth(d.year, d.month) + d.day

\* The date of an ordinal (date.fromordinal).
FromOrdinal(n) ==
    LET y == CHOOSE yy \in (n \div 366)..((n \div 365) + 1) :
                 DaysBeforeYear(yy) < n /\ n <= DaysBeforeYear(yy + 1)
        r == n - DaysBeforeYear(y)
        m == CHOOSE mm \in 1..12 :
                 DaysBeforeMonth(y, mm) < r
                 /\ r <= DaysBeforeMonth(y, mm) + DaysInMonth(y, mm)
    IN  Date(y, m, r - DaysBeforeMonth(y, m))

\* Timestamp comparison.
DateLE(a, b) == ToOrdinal(a) <= ToOrdinal(b)
DateLT(a, b) == ToOrdinal(a) < ToOrdinal(b)

\* current + timedelta(days=n)
AddDays(d, n) == FromOrdinal(ToOrdinal(d) + n)

\* Timestamp.replace(year=, month=, day=): the new Timestamp, or ValueError
\* when the fields name no calendar date.
Returned(d) == [raised |-> FALSE, value |-> d]
Raised(d)   == [raised |-> TRUE, value |-> d]

Replace(cur, y, m, d) ==
    IF ValidDate(y, m, d) THEN Returned(Date(y, m, d)) ELSE Raised(cur)

\* str(date) is the ISO text "YYYY-MM-DD", kept as its three fields;
\* pd.to_datetime reads it back into a Timestamp at midnight.
IsoText(d) == <<d.year, d.month, d.day>>
ToDatetime(s) == Date(s[1], s[2], s[3])

----------------------------------------------------------------------------
(* generate_recurring_events                                               *)

Frequencies == {"Daily", "Weekly", "Monthly", "Yearly"}

\* One pass of the if/elif chain on current: the next value of current, or
\* the ValueError that leaves the function.
MonthlyStep(cur) ==
    IF cur.month = 12
    THEN Replace(cur, cur.year + 1, 1, cur.day)
    ELSE Replace(cur, cur.year, cur.month + 1, cur.day)

\* (variant) the fallback lands on March 1 instead of February 28
YearlyStepMarchFirst(cur) ==
    LET r == Replace(cur, cur.year + 1, cur.month, cur.day)
    IN  IF r.raised THEN Replace(cur, cur.year + 1, 3, 1) ELSE r

YearlyStep(cur) ==
    LET r == Replace(cur, cur.year + 1, cur.month, cur.day)
    IN  IF r.raised THEN Replace(cur, cur.year + 1, 2, 28) ELSE r

\* (variant) a final else branch that steps one day
AdvanceElseDaily(cur, f) ==
    CASE f = "Daily"   -> Returned(AddDays(cur, 1))
      [] f = "Weekly"  -> Returned(AddDays(cur, 7))
      [] f = "Monthly" -> MonthlyStep(cur)
      [] f = "Yearly"  -> YearlyStep(cur)
      [] OTHER         -> Returned(AddDays(cur, 1))

Advance(cur, f) ==
    CASE f = "Daily"   -> Returned(AddDays(cur, 1))
      [] f = "Weekly"  -> Returned(AddDays(cur, 7))
      [] f = "Monthly" -> MonthlyStep(cur)
      [] f = "Yearly"  -> YearlyStep(cur)
      [] OTHER         -> Returned(cur)

\* (variant) the loop runs one day past end_date
LoopCondLate(cur, e) == DateLE(cur, AddDays(e, 1))

\* while current <= end_date
LoopCond(cur, e) == DateLE(cur, e)

\* ---- bounds of the expansion's inputs ----
MaxEmit == 6        \* dates one expansion may emit before the model stops it
EndYearSpan == 4    \* end dates lie in the start year or up to this many later

StartYears == {2020}
StartDays  == {1, 28, 29, 30, 31}
EndDays    == {1, 29}
StoredFrequencies == Frequencies \cup {"Hourly"}

StartDates ==
    {Date(y, m, d) : y \in StartYears, m \in 1..12, d \in StartDays}
EndDates ==
    {Date(y + k, m, d) : y \in StartYears, k \in 0..EndYearSpan,
                         m \in 1..12, d \in EndDays}

\* The entry the Add handler stores (and load_data reads back unchecked).
Entry(n, a, f, sd, ed) ==
    [name |-> n, amount |-> a, frequency |-> f,
     start_date |-> IsoText(sd), end_date |-> IsoText(ed)]

StoredItems ==
    {Entry("rent", -50, f, sd, ed) :
        f \in StoredFrequencies,
        sd \in {d \in StartDates : ValidDate(d.year, d.month, d.day)},
        ed \in {d \in EndDates : ValidDate(d.year, d.month, d.day)}}

NoDate == Date(1, 1, 1)

\* The projection tab calls generate_recurring_events on a stored item:
\* the arguments are bound and dates = [], current = start_date.
Call ==
    /\ pc = "idle"
    /\ start_date' = ToDatetime(item.start_date)
    /\ end_date' = ToDatetime(item.end_date)
    /\ freq' = item.frequency
    /\ current' = ToDatetime(item.start_date)
    /\ dates' = <<>>
    /\ pc' = "loop"
    /\ UNCHANGED item
    /\ UNCHANGED <<projVars, storeVars>>

\* One iteration of the while loop: append current, then advance it.
Iterate ==
    /\ pc = "loop"
    /\ LoopCond(current, end_date)
    /\ Len(dates) < MaxEmit
    /\ dates' = Append(dates, current)
    /\ LET r == Advance(current, freq)
       IN  /\ current' = r.value
           /\ pc' = IF r.raised THEN "raised" ELSE "loop"
    /\ UNCHANGED <<item, start_date, end_date, freq>>
    /\ UNCHANGED <<projVars, storeVars>>

\* The loop condition fails: the DataFrame of dates is returned.
Return ==
    /\ pc = "loop"
    /\ ~LoopCond(current, end_date)
    /\ pc' = "returned"
    /\ UNCHANGED <<item, start_date, end_date, freq, current, dates>>
    /\ UNCHANGED <<projVars, storeVars>>

----------------------------------------------------------------------------
(* project_balance                                                         *)

\* ---- bounds of the projection's inputs ----
TicksPerDay == 2    \* times of day a Timestamp can carry
MaxHorizon == 2     \* forecast_days: end_date is at most this many days on
MaxEvents == 3      \* rows of the events frame

Amounts  == {-2, 3}
Balances == {0, 5}

\* Series.dt.normalize(): the Timestamp's own day at midnight.
Normalize(t) == t - (t % TicksPerDay)

\* (variant) a range that leaves out its end
RECURSIVE DateRangeOpenEnd(_, _)
DateRangeOpenEnd(s, e) ==
    IF s >= e THEN <<>> ELSE <<s>> \o DateRangeOpenEnd(s + TicksPerDay, e)

\* pd.date_range(start, end): start, start + 1 day, ... while <= end.
RECURSIVE DateRange(_, _)
DateRange(s, e) ==
    IF s > e THEN <<>> ELSE <<s>> \o DateRange(s + TicksPerDay, e)

RECURSIVE SumAmounts(_)
SumAmounts(rows) ==
    IF rows = <<>> THEN 0 ELSE Head(rows).amount + SumAmounts(Tail(rows))

RECURSIVE SortedSeq(_)
SortedSeq(S) ==
    IF S = {} THEN <<>>
    ELSE LET m == CHOOSE x \in S : \A y \in S : x <= y
         IN  <<m>> \o SortedSeq(S \ {m})

\* events_local["date"] normalized
NormalizeDates(rows) ==
    [i \in 1..Len(rows) |->
        [date |-> Normalize(rows[i].date), amount |-> rows[i].amount]]

\* (variant) one row per date holding the date's first amount, not the sum
GroupByFirst(rows) ==
    LET keys == SortedSeq({rows[i].date : i \in 1..Len(rows)})
    IN  [k \in 1..Len(keys) |->
            [date |-> keys[k],
             amount |-> Head(SelectSeq(rows, LAMBDA r : r.date = keys[k])).amount]]

\* groupby("date")["amount"].sum().reset_index(): one row per date, in
\* ascending date order, holding the sum of that date's amounts.
GroupBySum(rows) ==
    LET keys == SortedSeq({rows[i].date : i \in 1..Len(rows)})
    IN  [k \in 1..Len(keys) |->
            [date |-> keys[k],
             amount |-> SumAmounts(SelectSeq(rows, LAMBDA r : r.date = keys[k]))]]

\* A cell of the merged amount column: a number, or NaN where no row matched.
Cell(v) == [nan |-> FALSE, v |-> v]
NaN     == [nan |-> TRUE, v |-> 0]

\* timeline.merge(daily, on="date", how="left"): for each left row, in order,
\* one row per right row of the same date, or one row with NaN.
RECURSIVE LeftMerge(_, _)
LeftMerge(left, right) ==
    IF left = <<>> THEN <<>>
    ELSE LET l == Head(left)
             hits == SelectSeq(right, LAMBDA r : r.date = l.date)
             rows == IF hits = <<>>
                     THEN <<[date |-> l.date, balance |-> l.balance, amount |-> NaN]>>
                     ELSE [i \in 1..Len(hits) |->
                              [date |-> l.date, balance |-> l.balance,
                               amount |-> Cell(hits[i].amount)]]
         IN  rows \o LeftMerge(Tail(left), right)

\* fillna(0)
FillNa(c) == IF c.nan THEN 0 ELSE c.v

\* start_balance + timeline["amount"].cumsum()
CumSum(rows, i) == SumAmounts(SubSeq(rows, 1, i))

EventDays == (0 - 1)..(MaxHorizon + 1)
EventRows == {[date |-> d * TicksPerDay, amount |-> a] : d \in EventDays, a \in Amounts}

RECURSIVE SeqsUpTo(_, _)
SeqsUpTo(S, n) ==
    IF n = 0 THEN {<<>>}
    ELSE LET shorter == SeqsUpTo(S, n - 1)
         IN  shorter \cup {Append(q, x) : q \in shorter, x \in S}

\* timeline = DataFrame(date_range(start, end)), dates normalized,
\* balance = start_balance.
Grid ==
    /\ ppc = "call"
    /\ timeline' = LET r == DateRange(p_start, p_end)
                   IN  [i \in 1..Len(r) |->
                           [date |-> Normalize(r[i]), balance |-> p_balance]]
    /\ ppc' = "grid"
    /\ UNCHANGED <<p_balance, p_events, p_start, p_end, daily>>
    /\ UNCHANGED <<expVars, storeVars>>

\* The amount column: the merge with the daily sums, or 0 without events.
Merge ==
    /\ ppc = "grid"
    /\ IF p_events # <<>>
       THEN /\ daily' = GroupBySum(NormalizeDates(p_events))
            /\ timeline' =
                 LET m == LeftMerge(timeline, daily')
                 IN  [i \in 1..Len(m) |->
                         [date |-> m[i].date, balance |-> m[i].balance,
                          amount |-> FillNa(m[i].amount)]]
       ELSE /\ daily' = daily
            /\ timeline' = [i \in 1..Len(timeline) |->
                               [date |-> timeline[i].date,
                                balance |-> timeline[i].balance, amount |-> 0]]
    /\ ppc' = "merged"
    /\ UNCHANGED <<p_balance, p_events, p_start, p_end>>
    /\ UNCHANGED <<expVars, storeVars>>

\* balance = start_balance + cumsum(amount); the timeline is returned.
Accumulate ==
    /\ ppc = "merged"
    /\ timeline' = [i \in 1..Len(timeline) |->
                       [timeline[i] EXCEPT !.balance = p_balance + CumSum(timeline, i)]]
    /\ ppc' = "done"
    /\ UNCHANGED <<p_balance, p_events, p_start, p_end, daily>>
    /\ UNCHANGED <<expVars, storeVars>>

----------------------------------------------------------------------------
(* Session state, the Add and Delete handlers, cashflow_data.json          *)

\* ---- bounds of the store ----
MaxEntries == 2     \* entries one session holds, bills and income together

Sessions == {1, 2}     \* browser sessions sharing the file
FlowTypes == {"Bill (expense)", "Income"}
NameInputs == {"rent", "None"}
AmountInputs == {5}
FrequencyInputs == {"Monthly"}
StartInputs == {Date(2025, 1, 1)}
EndInputs == {Date(2025, 4, 1)}

NoFile == [exists |-> FALSE, bills |-> <<>>, income |-> <<>>]

\* One value of the JSON text: strings and numbers are written as they are.
JsonEntry(e) ==
    [name |-> e.name, amount |-> e.amount, frequency |-> e.frequency,
     start_date |-> e.start_date, end_date |-> e.end_date]

\* (variant) the income array is written from the bills
save_data_bills_twice(bills, income) ==
    [exists |-> TRUE,
     bills |-> [i \in 1..Len(bills) |-> JsonEntry(bills[i])],
     income |-> [i \in 1..Len(bills) |-> JsonEntry(bills[i])]]

\* (variant) entries of the file the session does not hold are kept
save_data_merging(bills, income) ==
    LET keep(old, new) ==
            SelectSeq(old, LAMBDA e : \A i \in 1..Len(new) : new[i] # e)
    IN  [exists |-> TRUE,
         bills |-> keep(file.bills, bills) \o bills,
         income |-> keep(file.income, income) \o income]

\* save_data: the whole file is rewritten from the two collections given.
save_data(bills, income) ==
    [exists |-> TRUE,
     bills |-> [i \in 1..Len(bills) |-> JsonEntry(bills[i])],
     income |-> [i \in 1..Len(income) |-> JsonEntry(income[i])]]

\* load_data: the file's two arrays, or two empty lists without a file.
load_data(f) ==
    IF f.exists THEN [bills |-> f.bills, income |-> f.income]
    ELSE [bills |-> <<>>, income |-> <<>>]

\* if flow_type == "Bill (expense)" and amount > 0: amount = -abs(amount)
SignedAmount(flow_type, amount) ==
    IF flow_type = "Bill (expense)" /\ amount > 0
    THEN 0 - (IF amount < 0 THEN 0 - amount ELSE amount)
    ELSE amount

\* [x for x in entries if x["name"] != remove]
RemoveByName(entries, remove) == SelectSeq(entries, LAMBDA e : e["name"] # remove)

\* ["None"] + df["name"].tolist(): the options of the remove selectbox.
RemoveOptions(entries) == {"None"} \cup {entries[i].name : i \in 1..Len(entries)}

\* The button's condition: st.button(...) and remove != "None".
DeleteRequested(remove) == remove # "None"

NamesOf(kind, entries) == {<<kind, entries[i].name>> : i \in 1..Len(entries)}

Widgets(s, button, flow_type, name, amount, remove) ==
    [sess |-> s, button |-> button, flow_type |-> flow_type, name |-> name,
     amount |-> amount, remove |-> remove]

\* A session's first run: "bills" is not in its session state, so the file
\* is loaded into it.
FirstRun(s) ==
    /\ ~sess[s].loaded
    /\ LET data == load_data(file)
       IN  /\ sess' = [sess EXCEPT ![s] = [loaded |-> TRUE, bills |-> data.bills,
                                           income |-> data.income]]
           /\ seen' = [seen EXCEPT ![s] = NamesOf("bills", data.bills)
                                          \cup NamesOf("income", data.income)]
    /\ op' = Widgets(s, "none", "Bill (expense)", "", 0, "None")
    /\ UNCHANGED <<file, added>>
    /\ UNCHANGED <<expVars, projVars>>

\* A rerun with the sidebar's Add pressed.
Add(s) ==
    /\ sess[s].loaded
    /\ Len(sess[s].bills) + Len(sess[s].income) < MaxEntries
    /\ \E flow_type \in FlowTypes, name \in NameInputs, amount \in AmountInputs,
          frequency \in FrequencyInputs, sd \in StartInputs, ed \in EndInputs :
         LET entry == Entry(name, SignedAmount(flow_type, amount), frequency, sd, ed)
             bills == IF flow_type = "Bill (expense)"
                      THEN Append(sess[s].bills, entry) ELSE sess[s].bills
             income == IF flow_type = "Bill (expense)"
                       THEN sess[s].income ELSE Append(sess[s].income, entry)
             kind == IF flow_type = "Bill (expense)" THEN "bills" ELSE "income"
         IN  /\ sess' = [sess EXCEPT ![s].bills = bills, ![s].income = income]
             /\ file' = save_data(bills, income)
             /\ op' = Widgets(s, "Add", flow_type, name, amount, "None")
             /\ added' = [added EXCEPT ![s] = @ \cup {<<kind, name>>}]
    /\ UNCHANGED seen
    /\ UNCHANGED <<expVars, projVars>>

\* A rerun with Delete Bill pressed (the tab shows it when there are bills).
DeleteBill(s) ==
    /\ sess[s].loaded
    /\ sess[s].bills # <<>>
    /\ \E remove \in RemoveOptions(sess[s].bills) :
         /\ op' = Widgets(s, "Delete Bill", "Bill (expense)", "", 0, remove)
         /\ IF DeleteRequested(remove)
            THEN LET bills == RemoveByName(sess[s].bills, remove)
                 IN  /\ sess' = [sess EXCEPT ![s].bills = bills]
                     /\ file' = save_data(bills, sess[s].income)
                     /\ added' = [added EXCEPT ![s] = @ \ {<<"bills", remove>>}]
            ELSE UNCHANGED <<sess, file, added>>
    /\ UNCHANGED seen
    /\ UNCHANGED <<expVars, projVars>>

\* A rerun with Delete Income pressed.
DeleteIncome(s) ==
    /\ sess[s].loaded
    /\ sess[s].income # <<>>
    /\ \E remove \in RemoveOptions(sess[s].income) :
         /\ op' = Widgets(s, "Delete Income", "Bill (expense)", "", 0, remove)
         /\ IF DeleteRequested(remove)
            THEN LET income == RemoveByName(sess[s].income, remove)
                 IN  /\ sess' = [sess EXCEPT ![s].income = income]
                     /\ file' = save_data(sess[s].bills, income)
                     /\ added' = [added EXCEPT ![s] = @ \ {<<"income", remove>>}]
            ELSE UNCHANGED <<sess, file, added>>
    /\ UNCHANGED seen
    /\ UNCHANGED <<expVars, projVars>>

----------------------------------------------------------------------------
(* Specifications                                                          *)

ExpandIdle ==
    /\ item = Entry("", 0, "Daily", NoDate, NoDate)
    /\ start_date = NoDate /\ end_date = NoDate /\ freq = ""
    /\ current = NoDate /\ dates = <<>> /\ pc = "off"

ProjectIdle ==
    /\ p_balance = 0 /\ p_events = <<>> /\ p_start = 0 /\ p_end = 0
    /\ daily = <<>> /\ timeline = <<>> /\ ppc = "off"

StoreIdle ==
    /\ file = NoFile
    /\ sess = [s \in Sessions |-> [loaded |-> FALSE, bills |-> <<>>, income |-> <<>>]]
    /\ op = Widgets(0, "none", "Bill (expense)", "", 0, "None")
    /\ added = [s \in Sessions |-> {}]
    /\ seen = [s \in Sessions |-> {}]

\* The projection tab is about to expand one stored declaration.
InitExpand ==
    /\ item \in StoredItems
    /\ start_date = NoDate /\ end_date = NoDate /\ freq = ""
    /\ current = NoDate /\ dates = <<>> /\ pc = "idle"
    /\ ProjectIdle /\ StoreIdle

NextExpand == Call \/ Iterate \/ Return

SpecExpand == InitExpand /\ [][NextExpand]_vars

\* project_balance is called as the projection tab calls it:
\* start_date = today(), end_date = start_date + timedelta(days=forecast_days).
InitProject ==
    /\ p_balance \in Balances
    /\ p_events \in SeqsUpTo(EventRows, MaxEvents)
    /\ p_start \in 0..(TicksPerDay - 1)
    /\ \E h \in 0..MaxHorizon : p_end = p_start + h * TicksPerDay
    /\ daily = <<>> /\ timeline = <<>> /\ ppc = "call"
    /\ ExpandIdle /\ StoreIdle

NextProject == Grid \/ Merge \/ Accumulate

SpecProject == InitProject /\ [][NextProject]_vars

\* The file the sessions find: none, or one written by an earlier session.
InitialFiles ==
    {NoFile,
     [exists |-> TRUE,
      bills |-> <<JsonEntry(Entry("old", -5, "Monthly", Date(2025, 1, 1),
                                  Date(2025, 4, 1)))>>,
      income |-> <<>>]}

InitStore ==
    /\ file \in InitialFiles
    /\ sess = [s \in Sessions |-> [loaded |-> FALSE, bills |-> <<>>, income |-> <<>>]]
    /\ op = Widgets(0, "none", "Bill (expense)", "", 0, "None")
    /\ added = [s \in Sessions |-> {}]
    /\ seen = [s \in Sessions |-> {}]
    /\ ExpandIdle /\ ProjectIdle

NextStore ==
    \E s \in Sessions : FirstRun(s) \/ Add(s) \/ DeleteBill(s) \/ DeleteIncome(s)

SpecStore == InitStore /\ [][NextStore]_vars

\* One session alone on the file.
NextSingle == FirstRun(1) \/ Add(1) \/ DeleteBill(1) \/ DeleteIncome(1)

SpecSingle == InitStore /\ [][NextSingle]_vars

----------------------------------------------------------------------------
(* Properties of generate_recurring_events (SpecExpand)                    *)

Called == pc \in {"loop", "returned", "raised"}

\* C3: with a frequency of the four, at every point of the loop every date
\* emitted so far lies within [start_date, end_date], the emitted dates are
\* strictly increasing and the first one is start_date (a returned expansion
\* of a non-empty range has emitted it); with start_date > end_date nothing
\* is emitted.
EmittedDatesInRangeIncreasing ==
    (Called /\ freq \in Frequencies) =>
        /\ \A i \in 1..Len(dates) :
              DateLE(start_date, dates[i]) /\ DateLE(dates[i], end_date)
        /\ \A i \in 1..(Len(dates) - 1) : DateLT(dates[i], dates[i + 1])
        /\ (dates # <<>> => dates[1] = start_date)
        /\ (pc = "returned" /\ DateLE(start_date, end_date) => dates # <<>>)
        /\ (DateLT(end_date, start_date) => dates = <<>>)

EmittedSeveralAndReturned ==
    /\ pc = "returned" /\ freq = "Monthly" /\ Len(dates) >= 3
    /\ dates[1].month = 12

LeapDay == Date(2020, 2, 29)

\* The first five dates a Yearly expansion from 2020-02-29 emits.
LeapDayYearly ==
    <<Date(2020, 2, 29), Date(2021, 2, 28), Date(2022, 2, 28),
      Date(2023, 2, 28), Date(2024, 2, 28)>>

\* C4 (as amended): a Yearly expansion from 2020-02-29 emits 2021-02-28,
\* 2022-02-28, 2023-02-28 and then 2024-02-28: each step moves the current
\* date, not the start date, to the same month and day of the next year, so
\* after the fallback to Feb 28 the day stays 28, also in leap year 2024;
\* with end_date on or after 2024-02-29 all five dates are emitted.
YearlyFromLeapDayStaysOn28 ==
    (Called /\ freq = "Yearly" /\ start_date = LeapDay) =>
        /\ \A i \in 1..Len(dates) : i <= 5 => dates[i] = LeapDayYearly[i]
        /\ (pc = "returned" /\ DateLE(Date(2024, 2, 29), end_date)
               => Len(dates) >= 5)

\* C4 (as claimed): the fifth date of that expansion is 2024-02-29.
YearlyFromLeapDayReturnsTo29 ==
    (Called /\ freq = "Yearly" /\ start_date = LeapDay) =>
        \A i \in 1..Len(dates) :
            i <= 5 => dates[i] = IF i = 5 THEN Date(2024, 2, 29) ELSE LeapDayYearly[i]

FiveYearsFromLeapDay ==
    /\ freq = "Yearly" /\ start_date = LeapDay /\ pc = "returned"
    /\ Len(dates) >= 5
    /\ DateLE(Date(2024, 2, 29), end_date)

\* C5: with a frequency of the four, generate_recurring_events raises no
\* error: no expansion reaches the state an uncaught ValueError leaves.
NoErrorRaised == (freq \in Frequencies) => pc # "raised"

\* C6: with a frequency of the four, every iteration of the loop (a step that
\* emits a date) replaces current by a later date.
EveryIterationAdvances ==
    [][(freq \in Frequencies /\ Len(dates') > Len(dates))
          => DateLT(current, current')]_vars

\* C7: with a frequency outside the four and start_date <= end_date, the
\* call made on the stored item never advances current: the loop condition
\* stays true, every emitted date is start_date, the function does not
\* return (nor raise).
UnknownFrequencyNeverAdvances ==
    (Called /\ freq \notin Frequencies /\ DateLE(start_date, end_date)) =>
        /\ pc = "loop"
        /\ current = start_date
        /\ LoopCond(current, end_date)
        /\ \A i \in 1..Len(dates) : dates[i] = start_date

UnknownFrequencySpins ==
    /\ pc = "loop" /\ freq = "Hourly" /\ item.frequency = "Hourly"
    /\ Len(dates) >= 3

----------------------------------------------------------------------------
(* Properties of project_balance (SpecProject)                             *)

\* The calendar day of a Timestamp.
DayOf(t) == t \div TicksPerDay

\* The net amount of the events dated on a calendar day.
RECURSIVE NetOn(_, _)
NetOn(rows, day) ==
    IF rows = <<>> THEN 0
    ELSE (IF DayOf(Head(rows).date) = day THEN Head(rows).amount ELSE 0)
         + NetOn(Tail(rows), day)

\* The net amount of the events dated within [first, last].
RECURSIVE NetWithin(_, _, _)
NetWithin(rows, first, last) ==
    IF rows = <<>> THEN 0
    ELSE (IF first <= DayOf(Head(rows).date) /\ DayOf(Head(rows).date) <= last
          THEN Head(rows).amount ELSE 0)
         + NetWithin(Tail(rows), first, last)

\* C1: prefix-sum law of the returned timeline: the first balance is
\* start_balance plus the net amount of the first day's events, every later
\* balance exceeds the one before by the net amount of the events of its own
\* day (0 without events), and events dated outside the range add to no
\* balance: the last balance is start_balance plus the net of the events
\* within the range.
PrefixSumLaw ==
    (ppc = "done") =>
        /\ timeline # <<>>
        /\ timeline[1].balance
              = p_balance + NetOn(p_events, DayOf(timeline[1].date))
        /\ \A i \in 2..Len(timeline) :
              timeline[i].balance - timeline[i - 1].balance
                 = NetOn(p_events, DayOf(timeline[i].date))
        /\ timeline[Len(timeline)].balance
              = p_balance + NetWithin(p_events, DayOf(p_start), DayOf(p_end))

NettedDayAndOutsideEvent ==
    /\ ppc = "done"
    /\ \E i, j \in 1..Len(p_events) :
          /\ i # j
          /\ p_events[i].date = p_events[j].date
          /\ p_events[i].amount # p_events[j].amount
          /\ DayOf(p_start) < DayOf(p_events[i].date)
          /\ DayOf(p_events[i].date) <= DayOf(p_end)
    /\ \E k \in 1..Len(p_events) :
          \/ DayOf(p_events[k].date) < DayOf(p_start)
          \/ DayOf(p_events[k].date) > DayOf(p_end)

\* C2: the returned timeline has exactly one entry per calendar day of
\* [start_date, end_date], in ascending order without duplicate or gap,
\* whatever the events are; one entry when start_date = end_date.
OneEntryPerDay ==
    (ppc = "done") =>
        /\ Len(timeline) = DayOf(p_end) - DayOf(p_start) + 1
        /\ \A i \in 1..Len(timeline) :
              timeline[i].date = (DayOf(p_start) + i - 1) * TicksPerDay
        /\ (p_start = p_end => Len(timeline) = 1)

SeveralDaysWithSameDayEvents ==
    /\ ppc = "done"
    /\ Len(timeline) >= 3
    /\ p_start % TicksPerDay # 0
    /\ \E i, j \in 1..Len(p_events) :
          /\ i # j
          /\ p_events[i].date = p_events[j].date
          /\ DayOf(p_start) <= DayOf(p_events[i].date)
          /\ DayOf(p_events[i].date) <= DayOf(p_end)

----------------------------------------------------------------------------
(* Properties of the store (SpecStore, SpecSingle)                         *)

IsDelete(w) == w.button \in {"Delete Bill", "Delete Income"}

\* The entries of a collection whose name is not the given one, in order.
Kept(entries, name) == SelectSeq(entries, LAMBDA e : e.name # name)

\* C8: a Delete rerun with a name selected removes from the collection of
\* its kind all entries of that name, keeps the others in order and leaves
\* the other collection alone; without an entry of that name it changes
\* neither collection.
RemoveRemovesAllNamed ==
    [][/\ (op'.button = "Delete Bill") =>
             /\ sess'[op'.sess].bills = Kept(sess[op'.sess].bills, op'.remove)
             /\ sess'[op'.sess].income = sess[op'.sess].income
       /\ (op'.button = "Delete Income") =>
             /\ sess'[op'.sess].income = Kept(sess[op'.sess].income, op'.remove)
             /\ sess'[op'.sess].bills = sess[op'.sess].bills]_vars

\* C9: a session loads the file once: afterwards its collections change by
\* its own reruns only, never by what another session saved; and every add
\* or effective remove overwrites the whole file with the collections of
\* the session that ran it. (LostUpdate is the interleaving this allows.)
SavesOverwriteWithOwnCollections ==
    [][/\ \A s \in Sessions :
             sess[s].loaded => /\ sess'[s].loaded
                               /\ (op'.sess # s => sess'[s] = sess[s])
       /\ (op'.button = "Add" \/ (IsDelete(op') /\ op'.remove # "None")) =>
             /\ file'.exists
             /\ file'.bills = sess'[op'.sess].bills
             /\ file'.income = sess'[op'.sess].income]_vars

FileNames == NamesOf("bills", file.bills) \cup NamesOf("income", file.income)

\* Session b's add has just been saved, and an entry that session a added
\* (and did not delete), which b never held, is no longer in the file.
LostUpdate ==
    \E a, b \in Sessions :
        /\ a # b
        /\ op.sess = b /\ op.button = "Add"
        /\ \E kn \in added[a] :
              /\ kn \notin seen[b]
              /\ kn \notin added[b]
              /\ kn \notin FileNames

ChosenKind(w) == IF w.flow_type = "Bill (expense)" THEN "bills" ELSE "income"

\* C10: in a single session the file, once written or loaded, holds the
\* session's two collections, entry for entry in order; an add appends one
\* entry to the collection of the chosen kind, leaves the other alone and
\* rewrites the file; an effective remove rewrites the file.
StoreMatchesSession ==
    /\ []((sess[1].loaded /\ file.exists) =>
             /\ file.bills = sess[1].bills
             /\ file.income = sess[1].income)
    /\ [][/\ (op'.button = "Add") =>
                /\ file'.exists
                /\ Len(sess'[1].bills) + Len(sess'[1].income)
                      = Len(sess[1].bills) + Len(sess[1].income) + 1
                /\ IF ChosenKind(op') = "bills"
                   THEN /\ SubSeq(sess'[1].bills, 1, Len(sess[1].bills)) = sess[1].bills
                        /\ sess'[1].bills[Len(sess'[1].bills)].name = op'.name
                        /\ sess'[1].income = sess[1].income
                   ELSE /\ SubSeq(sess'[1].income, 1, Len(sess[1].income)) = sess[1].income
                        /\ sess'[1].income[Len(sess'[1].income)].name = op'.name
                        /\ sess'[1].bills = sess[1].bills
          /\ (IsDelete(op') /\ op'.remove # "None") => file'.exists]_vars

AddedThenRemoved ==
    /\ op.sess = 1 /\ op.button = "Delete Bill" /\ op.remove = "rent"
    /\ file.exists
    /\ file.bills = <<>>
    /\ file.income # <<>>
    /\ file.income = sess[1].income
    /\ "rent" \notin {e[2] : e \in seen[1]}

====
